---- MODULE Spec2Model ----
(***************************************************************************)
(* A model of DiffDRR's rendering core: the density transform of drr.py    *)
(* and data.py, the DRR session of drr.py, and the Siddon renderer of      *)
(* renderers.py.                                                           *)
(*                                                                         *)
(* Numbers.  The tensors of the program hold floating point numbers; the   *)
(* model computes with exact rationals <<n, d>> (d > 0, lowest terms), so  *)
(* rounding error is not modelled.  The one zero divisor the model meets   *)
(* is the zero range of a constant density (0/0): it gives NaN, as the     *)
(* tensor division does, and every operation on NaN gives NaN.             *)
(***************************************************************************)
EXTENDS Integers, Sequences, FiniteSets, TLC

\* ------------------------------------------------------------------------
\* Exact rational arithmetic (the tensors' +, -, *, /, <=, min, max)
\* ------------------------------------------------------------------------
NaN == <<0, 0>>

Abs(x) == IF x < 0 THEN -x ELSE x

RECURSIVE Gcd(_, _)
Gcd(a, b) == IF b = 0 THEN a ELSE Gcd(b, a % b)

\* n/d in lowest terms with a positive denominator (d # 0)
Rat(n, d) ==
    LET g == Gcd(Abs(n), Abs(d))
        s == IF d < 0 THEN -1 ELSE 1
    IN  <<s * (n \div g), s * (d \div g)>>

IsNum(x) == x[2] # 0
R(i) == <<i, 1>>
Zero == R(0)
One == R(1)
Half(i) == Rat(i, 2)

RAdd(x, y) ==
    IF ~IsNum(x) \/ ~IsNum(y) THEN NaN
    ELSE LET g == Gcd(x[2], y[2])
         IN  Rat(x[1] * (y[2] \div g) + y[1] * (x[2] \div g), (x[2] \div g) * y[2])

RNeg(x) == IF ~IsNum(x) THEN NaN ELSE <<-x[1], x[2]>>

RSub(x, y) == RAdd(x, RNeg(y))

RMul(x, y) ==
    IF ~IsNum(x) \/ ~IsNum(y) THEN NaN
    ELSE LET g1 == Gcd(Abs(x[1]), y[2])
             g2 == Gcd(Abs(y[1]), x[2])
         IN  IF x[1] = 0 \/ y[1] = 0 THEN Zero
             ELSE <<(x[1] \div g1) * (y[1] \div g2), (x[2] \div g2) * (y[2] \div g1)>>

RDiv(x, y) ==
    IF ~IsNum(x) \/ ~IsNum(y) THEN NaN
    ELSE IF y[1] = 0 THEN NaN
    ELSE RMul(x, Rat(y[2], y[1]))

\* comparisons of numbers; a comparison with NaN is false, as in the program
RLe(x, y) ==
    /\ IsNum(x) /\ IsNum(y)
    /\ LET g == Gcd(x[2], y[2])
       IN  x[1] * (y[2] \div g) <= y[1] * (x[2] \div g)

RLt(x, y) == IsNum(x) /\ IsNum(y) /\ RLe(x, y) /\ x # y

RMin2(x, y) == IF RLe(x, y) THEN x ELSE y
RMax2(x, y) == IF RLe(x, y) THEN y ELSE x

\* floor of a rational, and round-half-to-even (std::nearbyint, which
\* grid_sample's nearest mode applies to the unnormalised coordinate)
Floor(x) == x[1] \div x[2]

NearbyInt(x) ==
    LET f == Floor(x)
        twice == 2 * (x[1] - f * x[2])      \* 2 * fractional part * x[2]
    IN  IF twice < x[2] THEN f
        ELSE IF twice > x[2] THEN f + 1
        ELSE IF f % 2 = 0 THEN f ELSE f + 1

\* ------------------------------------------------------------------------
\* renderers.py: the Siddon renderer
\* ------------------------------------------------------------------------
\* A point or a direction is a triple of rationals.  A ray batch is `source`,
\* one point per image (shape (B, 1, 3)), and `target`, a sequence of points
\* per image (shape (B, N, 3)).  A volume is a function from the voxel
\* indices <<i, j, k>> (from 0) to its values; dims is its shape.

\* The model's value of Siddon's constructor argument eps (default 1e-8):
\* eps = 1 / EpsInv, as small as the model's 32-bit integers allow.
EpsInv == 100
eps == Rat(1, EpsInv)

Axes == 1 .. 3

Voxels(dims) == (0 .. dims[1] - 1) \X (0 .. dims[2] - 1) \X (0 .. dims[3] - 1)

\* Siddon.dims: the volume's shape
Dims(shape) == shape

RECURSIVE Insert(_, _)
Insert(x, s) ==
    IF s = <<>> THEN <<x>>
    ELSE IF RLe(x, Head(s)) THEN <<x>> \o s
    ELSE <<Head(s)>> \o Insert(x, Tail(s))

\* torch.sort(...).values, ascending
RECURSIVE Sort(_)
Sort(s) == IF s = <<>> THEN <<>> ELSE Insert(Head(s), Sort(Tail(s)))

\* s[..., keep]: the entries of s at the positions in keep, in order
Select(s, keep) ==
    LET RECURSIVE Sel(_)
        Sel(k) == IF k > Len(s) THEN <<>>
                  ELSE (IF k \in keep THEN <<s[k]>> ELSE <<>>) \o Sel(k + 1)
    IN  Sel(1)

\* The first and last intersections of one ray with the volume
get_alpha_minmax(S, T, dims, e) ==
    LET sdd == [a \in Axes |-> RAdd(RSub(T[a], S[a]), e)]
        alpha0 == [a \in Axes |-> RDiv(RSub(Zero, S[a]), sdd[a])]
        alpha1 == [a \in Axes |-> RDiv(RSub(R(dims[a] - 1), S[a]), sdd[a])]
        lo == [a \in Axes |-> RMin2(alpha0[a], alpha1[a])]
        hi == [a \in Axes |-> RMax2(alpha0[a], alpha1[a])]
        amin == RMax2(RMax2(lo[1], lo[2]), lo[3])
        amax == RMin2(RMin2(hi[1], hi[2]), hi[3])
    IN  [alphamin |-> IF RLt(amin, Zero) THEN Zero ELSE amin,
         alphamax |-> IF RLt(One, amax) THEN One ELSE amax]

\* good_idxs of one ray: the positions whose alpha lies within its bounds
good_idxs(alphas, S, T, dims, e) ==
    LET mm == get_alpha_minmax(S, T, dims, e)
    IN  {k \in 1 .. Len(alphas) : RLe(mm.alphamin, alphas[k]) /\ RLe(alphas[k], mm.alphamax)}

\* Keep, for each ray, the positions that are within that ray's own bounds
filter_intersections_PerRay(alphas, source, target, dims, e) ==
    [b \in 1 .. Len(target) |->
       [n \in 1 .. Len(target[b]) |->
          Select(alphas[b][n], good_idxs(alphas[b][n], source[b], target[b][n], dims, e))]]

\* Keep the positions that are within bounds for any ray of the batch.
\* alphas[b][n] is the sequence of ray (b, n); all have the same length.
filter_intersections_outside_volume(alphas, source, target, dims, e) ==
    LET keep == UNION {good_idxs(alphas[b][n], source[b], target[b][n], dims, e) :
                       <<b, n>> \in {<<b, n>> \in (1 .. Len(target)) \X (1 .. 64) :
                                       n <= Len(target[b])}}
    IN  [b \in 1 .. Len(target) |->
           [n \in 1 .. Len(target[b]) |-> Select(alphas[b][n], keep)]]

\* The crossings of one ray with the planes of one axis (arange(dim + 1) - 0.5)
PlaneAlphas(S, T, dims, e, a) ==
    [i \in 1 .. dims[a] + 1 |->
        RDiv(RSub(RSub(R(i - 1), Half(1)), S[a]), RAdd(RSub(T[a], S[a]), e))]

get_alphas(source, target, dims, e, filter) ==
    LET sorted == [b \in 1 .. Len(target) |->
                     [n \in 1 .. Len(target[b]) |->
                        Sort(PlaneAlphas(source[b], target[b][n], dims, e, 1)
                             \o PlaneAlphas(source[b], target[b][n], dims, e, 2)
                             \o PlaneAlphas(source[b], target[b][n], dims, e, 3))]]
    IN  IF filter
        THEN filter_intersections_outside_volume(sorted, source, target, dims, e)
        ELSE sorted

\* The world point at parameter alpha of one ray, normalised for grid_sample
get_xyzs(alpha, S, T, dims, e) ==
    [a \in Axes |->
        RSub(RDiv(RMul(R(2), RAdd(S[a], RMul(alpha, RAdd(RSub(T[a], S[a]), e)))),
                  R(dims[a])),
             One)]

\* grid_sample at one normalised point with padding_mode "border"
get_voxel_Border(volume, dims, xyz) ==
    LET ix == [a \in Axes |->
                 NearbyInt(RMul(RDiv(RAdd(xyz[a], One), R(2)), R(dims[a] - 1)))]
        cl == [a \in Axes |->
                 IF ix[a] < 0 THEN 0 ELSE IF ix[a] > dims[a] - 1 THEN dims[a] - 1 ELSE ix[a]]
    IN  volume[<<cl[1], cl[2], cl[3]>>]

\* grid_sample at one normalised point: mode "nearest", align_corners=True,
\* padding_mode "zeros" (the default)
get_voxel(volume, dims, xyz) ==
    LET ix == [a \in Axes |->
                 NearbyInt(RMul(RDiv(RAdd(xyz[a], One), R(2)), R(dims[a] - 1)))]
    IN  IF \A a \in Axes : 0 <= ix[a] /\ ix[a] <= dims[a] - 1
        THEN volume[<<ix[1], ix[2], ix[3]>>]
        ELSE Zero

\* The value of a voxel index, zero outside the volume (padding_mode "zeros")
Padded(volume, dims, ix) ==
    IF \A a \in Axes : 0 <= ix[a] /\ ix[a] <= dims[a] - 1
    THEN volume[<<ix[1], ix[2], ix[3]>>]
    ELSE Zero

\* grid_sample at one normalised point: mode "bilinear" on a 5-D input
\* (trilinear interpolation), align_corners=True, padding_mode "zeros".
\* Each of the 8 surrounding voxels weighs by the opposite corner's volume.
get_voxel_bilinear(volume, dims, xyz) ==
    LET c == [a \in Axes |-> RMul(RDiv(RAdd(xyz[a], One), R(2)), R(dims[a] - 1))]
        lo == [a \in Axes |-> Floor(c[a])]
        w(a, up) == IF up = 1 THEN RSub(c[a], R(lo[a]))
                    ELSE RSub(R(lo[a] + 1), c[a])
        corner(i, j, k) ==
            RMul(Padded(volume, dims, <<lo[1] + i, lo[2] + j, lo[3] + k>>),
                 RMul(w(1, i), RMul(w(2, j), w(3, k))))
    IN  RAdd(RAdd(RAdd(corner(0, 0, 0), corner(0, 0, 1)),
                  RAdd(corner(0, 1, 0), corner(0, 1, 1))),
             RAdd(RAdd(corner(1, 0, 0), corner(1, 0, 1)),
                  RAdd(corner(1, 1, 0), corner(1, 1, 1))))

\* The interpolation modes grid_sample accepts for a 5-D input; any other
\* mode raises in grid_sample
SampleModes == {"nearest", "bilinear"}

\* _get_voxel(volume, xyzs, mode) at one point, for a mode grid_sample accepts
get_voxel_mode(volume, dims, xyz, mode) ==
    IF mode = "nearest" THEN get_voxel(volume, dims, xyz)
    ELSE get_voxel_bilinear(volume, dims, xyz)

RECURSIVE SumSeq(_)
SumSeq(s) == IF s = <<>> THEN Zero ELSE RAdd(Head(s), SumSeq(Tail(s)))

\* The squared norm of target - source + eps
raylength2(S, T, e) ==
    LET sdd == [a \in Axes |-> RAdd(RSub(T[a], S[a]), e)]
    IN  SumSeq([a \in Axes |-> RMul(sdd[a], sdd[a])])

\* Siddon.forward for one ray, given its alphas: the pixel's value is
\* sum * sqrt(len2); the model keeps the two factors (len2 is exact).
SiddonPixel(volume, dims, S, T, e, alphas) ==
    LET alphamid == [k \in 1 .. Len(alphas) - 1 |->
                        RDiv(RAdd(alphas[k], alphas[k + 1]), R(2))]
        img == [k \in 1 .. Len(alphas) - 1 |->
                  RMul(get_voxel(volume, dims, get_xyzs(alphamid[k], S, T, dims, e)),
                       RSub(alphas[k + 1], alphas[k]))]
    IN  [sum |-> SumSeq(img), len2 |-> raylength2(S, T, e)]

\* Siddon.forward without a mask, from the alphas on: one value per ray
SiddonImage(volume, dims, source, target, e, alphas) ==
    [b \in 1 .. Len(target) |->
       [n \in 1 .. Len(target[b]) |->
          SiddonPixel(volume, dims, source[b], target[b][n], e, alphas[b][n])]]

\* Siddon.forward(volume, source, target)
SiddonForward(volume, shape, source, target, e, filter) ==
    SiddonImage(volume, Dims(shape), source, target, e,
                get_alphas(source, target, Dims(shape), e, filter))

\* ------------------------------------------------------------------------
\* drr.py and data.py: the density transform
\* ------------------------------------------------------------------------
AirThreshold == -800
BoneThreshold == 350

\* torch.where(cond): the indices of the voxels that satisfy cond
WhereAir(volume) == {v \in DOMAIN volume : RLe(volume[v], R(AirThreshold))}
WhereSoftTissue(volume) ==
    {v \in DOMAIN volume : RLt(R(AirThreshold), volume[v]) /\ RLe(volume[v], R(BoneThreshold))}
WhereBone(volume) == {v \in DOMAIN volume : RLt(R(BoneThreshold), volume[v])}

\* tensor.min() and tensor.max() over a non-empty set of numbers
MinOf(S) == CHOOSE x \in S : \A y \in S : RLe(x, y)
MaxOf(S) == CHOOSE x \in S : \A y \in S : RLe(y, x)
Values(f) == {f[v] : v \in DOMAIN f}

\* Normalize with the maximum taken before the minimum is subtracted
Normalize_MaxBeforeShift(density) ==
    LET lo == MinOf(Values(density))
        hi == MaxOf(Values(density))
    IN  [v \in DOMAIN density |-> RDiv(RSub(density[v], lo), hi)]

\* density -= density.min(); density /= density.max()
Normalize(density) ==
    LET lo == MinOf(Values(density))
        shifted == [v \in DOMAIN density |-> RSub(density[v], lo)]
        hi == MaxOf(Values(shifted))
    IN  [v \in DOMAIN density |-> RDiv(shifted[v], hi)]

\* The three indexed assignments into the empty tensor, in program order
\* (a later one would overwrite an earlier one), then the normalisation.
\* A voxel in none of air, soft_tissue and bone would stay uninitialised:
\* there is none, the thresholds cover every number.
Density(volume, air, soft_tissue, bone, m) ==
    LET floor == MinOf({volume[v] : v \in soft_tissue})
        a1 == [v \in DOMAIN volume |-> IF v \in air THEN floor ELSE volume[v]]
        a2 == [v \in DOMAIN volume |-> IF v \in soft_tissue THEN volume[v] ELSE a1[v]]
        a3 == [v \in DOMAIN volume |-> IF v \in bone THEN RMul(volume[v], m) ELSE a2[v]]
    IN  Normalize(a3)

\* data.py: transform_hu_to_density(volume).  volume[soft_tissue].min() of an
\* empty selection raises.
transform_hu_to_density(volume) ==
    LET air == WhereAir(volume)
        soft_tissue == WhereSoftTissue(volume)
        bone == WhereBone(volume)
    IN  IF soft_tissue = {}
        THEN [raised |-> TRUE, density |-> <<>>]
        ELSE [raised |-> FALSE, density |-> Density(volume, air, soft_tissue, bone, One)]

\* ------------------------------------------------------------------------
\* drr.py: the DRR session
\* ------------------------------------------------------------------------
\* A session is a record self of the DRR's fields.  drr.py installs the
\* density as self.renderer.volume and calls self.renderer(source, target);
\* the model takes that call to be Siddon.forward of renderers.py on the
\* installed volume, with the renderer's default arguments.

\* A missing argument (None)
None == [given |-> FALSE, value |-> Zero]
Some(x) == [given |-> TRUE, value |-> x]

\* volume.flip([0])
Flip(input, shape) ==
    [v \in Voxels(shape) |-> input[<<shape[1] - 1 - v[1], v[2], v[3]>>]]

\* DRR.__init__ (no subsampling, reshape = True, renderer = "siddon")
DRRInit(input, shape, height, width, patch_size, m) ==
    LET vol == Flip(input, shape)
    IN  [volume |-> vol,
         shape |-> shape,
         height |-> height,
         width |-> width,
         reshape |-> TRUE,
         patch_size |-> patch_size,
         n_patches |-> IF patch_size.given
                       THEN Some((height * width) \div (patch_size.value * patch_size.value))
                       ELSE None,
         air |-> WhereAir(vol),
         soft_tissue |-> WhereSoftTissue(vol),
         bone |-> WhereBone(vol),
         bone_attenuation_multiplier |-> m,
         renderer |-> [has_volume |-> FALSE, volume |-> <<>>]]

\* set_bone_attenuation_multiplier without the store of line 145
set_bone_attenuation_multiplier_NoStore(self, m) ==
    IF self.soft_tissue = {}
    THEN [raised |-> TRUE, self |-> self]
    ELSE [raised |-> FALSE,
          self |-> [self EXCEPT
                      !.renderer = [has_volume |-> TRUE,
                                    volume |-> Density(self.volume, self.air,
                                                       self.soft_tissue, self.bone, m)]]]

\* set_bone_attenuation_multiplier: the new session, or raised with the
\* session as it was (the only statement that can raise is the first)
set_bone_attenuation_multiplier(self, m) ==
    IF self.soft_tissue = {}
    THEN [raised |-> TRUE, self |-> self]
    ELSE [raised |-> FALSE,
          self |-> [self EXCEPT
                      !.bone_attenuation_multiplier = m,
                      !.renderer = [has_volume |-> TRUE,
                                    volume |-> Density(self.volume, self.air,
                                                       self.soft_tissue, self.bone, m)]]]

\* forward, lines 113-116: no statement sets self.density, so the density is
\* derived again on every call, then once more when a multiplier is given
forward_density(self, m) ==
    LET r1 == set_bone_attenuation_multiplier(self, self.bone_attenuation_multiplier)
    IN  IF r1.raised \/ ~m.given THEN r1
        ELSE set_bone_attenuation_multiplier(r1.self, m.value)
\* self.renderer(source, target): Siddon.forward on the installed density
renderer_call(self, source, target) ==
    SiddonForward(self.renderer.volume, self.shape, source, target, eps, TRUE)

\* target[:, lo : hi] (0-based, hi excluded)
Slice(target, lo, hi) == [b \in 1 .. Len(target) |-> SubSeq(target[b], lo + 1, hi)]

RECURSIVE Cat(_, _)
\* torch.cat(parts, dim=1) of parts[from .. Len(parts)]
Cat(parts, from) ==
    IF from > Len(parts) THEN [b \in 1 .. Len(parts[1]) |-> <<>>]
    ELSE LET rest == Cat(parts, from + 1)
         IN  [b \in 1 .. Len(parts[1]) |-> parts[from][b] \o rest[b]]

RECURSIVE Flatten(_, _)
Flatten(img, b) == IF b > Len(img) THEN <<>> ELSE img[b] \o Flatten(img, b + 1)

\* reshape_transform without subsampling: img.view(-1, 1, height, width).
\* An image is kept as its height * width pixels in row-major order.
reshape_transform(self, img) ==
    LET flat == Flatten(img, 1)
        hw == self.height * self.width
    IN  IF ~self.reshape THEN [raised |-> FALSE, img |-> img]
        ELSE IF Len(flat) % hw # 0 THEN [raised |-> TRUE, img |-> <<>>]
        ELSE [raised |-> FALSE,
              img |-> [i \in 1 .. Len(flat) \div hw |->
                         SubSeq(flat, (i - 1) * hw + 1, i * hw)]]

\* forward, lines 124-134: render the rays, in patches when patch_size is set
forward_render(self, source, target) ==
    IF self.patch_size.given
    THEN IF self.n_patches.value = 0
         THEN [raised |-> TRUE, img |-> <<>>]       \* n_points: division by zero
         ELSE LET n_points == Len(target[1]) \div self.n_patches.value
                  parts == [i \in 1 .. self.n_patches.value |->
                              renderer_call(self, source,
                                            Slice(target, (i - 1) * n_points, i * n_points))]
              IN  reshape_transform(self, Cat(parts, 1))
    ELSE reshape_transform(self, renderer_call(self, source, target))

\* forward: the session after the call, how it ended, the density the
\* renderer read and the image returned
forward(self, m, source, target) ==
    LET d == forward_density(self, m)
        r == forward_render(d.self, source, target)
    IN  IF d.raised
        THEN [self |-> d.self, raised |-> TRUE, read |-> FALSE, img |-> <<>>]
        ELSE [self |-> d.self, raised |-> r.raised,
              read |-> ~(self.patch_size.given /\ self.n_patches.value = 0),
              img |-> r.img]
\* ------------------------------------------------------------------------
\* State
\* ------------------------------------------------------------------------
VARIABLES
    input,      \* the raw volume given to DRR.__init__ and to data.read
    drr,        \* the DRR session (self)
    outcome,    \* how the last call ended: "constructed", "returned", "raised"
    supplied,   \* the multiplier a caller supplied last (the constructor's at first)
    sampled,    \* the density the renderer read during the last forward, and
                \* the multiplier supplied last at that time
    density,    \* the last result of transform_hu_to_density
    scene,      \* the volume and shape handed to Siddon.forward directly
    source,     \* the rays of the last render: one source per image
    target,     \* and the targets of each image, one per pixel
    alphas,     \* the parametric coordinates: Siddon.forward's alphas, per ray
    xyzs,       \* the normalised points _get_xyzs returned last
    img,        \* the image (or the voxels) returned by the last call
    threads     \* the calls in progress on a session shared by threads

vars == <<input, drr, outcome, supplied, sampled, density, scene, source, target,
          alphas, xyzs, img, threads>>

\* ------------------------------------------------------------------------
\* Inputs
\* ------------------------------------------------------------------------
\* The shape of the session's volume
NX == 3
NY == 2
NZ == 2
Shape == <<NX, NY, NZ>>

\* Raw intensities: air (-1000, and -800 on the threshold), soft tissue (0,
\* and 350 on the threshold) and bone (700)
RawVals == {-1000, -800, 0, 350, 700}

\* Raw volumes: three slabs across the first axis, one intensity per slab
Layered(vals) == [v \in Voxels(Shape) |-> R(vals[1 + (3 * v[1]) \div NX])]
Volumes == {Layered(vals) : vals \in [1 .. 3 -> RawVals]}

Multipliers == {Rat(1, 2), One, R(2)}

\* A point given in half voxels
P3(x, y, z) == <<Half(x), Half(y), Half(z)>>

\* The session's detector has one pixel; its pose gives this ray
SessionRays ==
    {[source |-> <<P3(-4, 1, 1)>>, target |-> << <<P3(8, 1, 1)>> >>]}

NoRead == [read |-> FALSE, volume |-> <<>>, multiplier |-> Zero]
NotCalled == [called |-> FALSE, raised |-> FALSE, density |-> <<>>]
NoScene == [volume |-> <<>>, shape |-> <<0, 0, 0>>]

\* ------------------------------------------------------------------------
\* Spec: one DRR session, and data.py's transform of the same raw volume
\* ------------------------------------------------------------------------
Init ==
    /\ input \in Volumes
    /\ supplied \in Multipliers
    /\ drr = DRRInit(input, Shape, 1, 1, None, supplied)
    /\ outcome = "constructed"
    /\ sampled = NoRead
    /\ density = NotCalled
    /\ scene = NoScene
    /\ source = <<>>
    /\ target = <<>>
    /\ alphas = <<>>
    /\ xyzs = <<>>
    /\ img = <<>>
    /\ threads = <<>>

\* drr(pose, bone_attenuation_multiplier=m)
Forward(m, rays) ==
    \E r \in {forward(drr, m, rays.source, rays.target)} :
        /\ drr' = r.self
        /\ outcome' = IF r.raised THEN "raised" ELSE "returned"
        /\ supplied' = IF m.given THEN m.value ELSE supplied
        /\ sampled' = IF r.read
                      THEN [read |-> TRUE, volume |-> r.self.renderer.volume,
                            multiplier |-> supplied']
                      ELSE NoRead
        /\ source' = rays.source
        /\ target' = rays.target
        /\ img' = r.img
        /\ UNCHANGED <<input, density, scene, alphas, xyzs, threads>>

\* drr.set_bone_attenuation_multiplier(m)
SetBoneAttenuationMultiplier(m) ==
    \E r \in {set_bone_attenuation_multiplier(drr, m)} :
        /\ drr' = r.self
        /\ outcome' = IF r.raised THEN "raised" ELSE "returned"
        /\ supplied' = m
        /\ UNCHANGED <<input, sampled, density, scene, source, target, alphas, xyzs, img,
                       threads>>

\* transform_hu_to_density(volume), as data.read calls it
TransformHuToDensity ==
    \E r \in {transform_hu_to_density(input)} :
        /\ density' = [called |-> TRUE, raised |-> r.raised, density |-> r.density]
        /\ UNCHANGED <<input, drr, outcome, supplied, sampled, scene, source, target,
                       alphas, xyzs, img, threads>>

Next ==
    \/ \E m \in {None} \cup {Some(x) : x \in Multipliers}, rays \in SessionRays :
          Forward(m, rays)
    \/ \E m \in Multipliers : SetBoneAttenuationMultiplier(m)
    \/ TransformHuToDensity

Spec == Init /\ [][Next]_vars
\* ------------------------------------------------------------------------
\* The density transform as the specification states it
\* ------------------------------------------------------------------------
IsAir(x) == x[1] <= -800 * x[2]
IsBone(x) == x[1] > 350 * x[2]
IsSoftTissue(x) == ~IsAir(x) /\ ~IsBone(x)

\* The density before normalisation: soft tissue keeps its raw value, bone
\* gets raw * m, air gets the least raw value of the soft tissue
StatedPreNorm(raw, m) ==
    [v \in DOMAIN raw |->
        IF IsAir(raw[v]) THEN MinOf({raw[w] : w \in {u \in DOMAIN raw : IsSoftTissue(raw[u])}})
        ELSE IF IsBone(raw[v]) THEN RMul(raw[v], m)
        ELSE raw[v]]

\* (D - min(D)) / (max(D) - min(D))
StatedDensity(raw, m) ==
    LET D == StatedPreNorm(raw, m)
        lo == MinOf(Values(D))
        hi == MaxOf(Values(D))
    IN  [v \in DOMAIN raw |-> RDiv(RSub(D[v], lo), RSub(hi, lo))]

HasSoftTissue(raw) == \E v \in DOMAIN raw : IsSoftTissue(raw[v])

\* C4 as claimed: both entry points give the stated density for every
\* multiplier m > 0.
C4_EveryEntryPointEveryMultiplier ==
    /\ drr.renderer.has_volume =>
          drr.renderer.volume = StatedDensity(drr.volume, drr.bone_attenuation_multiplier)
    /\ \A m \in Multipliers :
          (density.called /\ ~density.raised) => density.density = StatedDensity(input, m)

\* C4, amended: every voxel is in exactly one of air (raw <= -800), soft
\* tissue (-800 < raw <= 350) and bone (raw > 350); the density that
\* set_bone_attenuation_multiplier installs for a multiplier m > 0 is the
\* stated one, (D - min(D)) / (max(D) - min(D)) as the tensor division gives
\* it, where D keeps soft tissue, scales bone by m and floors air at the
\* least soft-tissue value; transform_hu_to_density takes no multiplier and
\* returns the stated density for m = 1; both raise, giving no density, when
\* the volume has no soft-tissue voxel.
C4_DensityTransform ==
    /\ \A v \in DOMAIN drr.volume :
          /\ Cardinality({c \in {"air", "soft_tissue", "bone"} : v \in drr[c]}) = 1
          /\ v \in drr.air <=> IsAir(drr.volume[v])
          /\ v \in drr.bone <=> IsBone(drr.volume[v])
    /\ drr.renderer.has_volume =>
          /\ HasSoftTissue(drr.volume)
          /\ drr.renderer.volume = StatedDensity(drr.volume, drr.bone_attenuation_multiplier)
    /\ (outcome = "raised") => ~HasSoftTissue(drr.volume)
    /\ density.called =>
          /\ density.raised <=> ~HasSoftTissue(input)
          /\ ~density.raised => density.density = StatedDensity(input, One)

\* C4's case: an installed and a returned density of a volume with air, soft
\* tissue and bone, under a multiplier other than 1
C4_Witness ==
    /\ drr.renderer.has_volume
    /\ density.called /\ ~density.raised
    /\ drr.air # {} /\ drr.soft_tissue # {} /\ drr.bone # {}
    /\ drr.bone_attenuation_multiplier = R(2)
    /\ drr.renderer.volume # density.density
InUnitRange(field) ==
    /\ \A v \in DOMAIN field : RLe(Zero, field[v]) /\ RLe(field[v], One)
    /\ \E v \in DOMAIN field : field[v] = Zero
    /\ \E v \in DOMAIN field : field[v] = One

\* C5 as claimed: whenever a forward of a session on a non-constant volume
\* has rendered, every value of the density the renderer read lies in
\* [0, 1], the least is 0 and the greatest is 1.
C5_SampledDensityInUnitRange ==
    (sampled.read /\ Cardinality(Values(drr.volume)) > 1) => InUnitRange(sampled.volume)

\* C6: the raw volume and the three index sets stay those of construction;
\* the density the renderer holds, and the one it read in the last forward,
\* is the stated transform of the raw volume under the multiplier supplied
\* last (at the time of that forward); and the last forward's density and
\* image are those of a fresh session constructed with that multiplier.
C6_DensityIsFunctionOfRawAndMultiplier ==
    /\ drr.volume = Flip(input, Shape)
    /\ drr.air = {v \in Voxels(Shape) : IsAir(Flip(input, Shape)[v])}
    /\ drr.soft_tissue = {v \in Voxels(Shape) : IsSoftTissue(Flip(input, Shape)[v])}
    /\ drr.bone = {v \in Voxels(Shape) : IsBone(Flip(input, Shape)[v])}
    /\ drr.renderer.has_volume =>
          drr.renderer.volume = StatedDensity(Flip(input, Shape), supplied)
    /\ sampled.read =>
          /\ sampled.volume = StatedDensity(Flip(input, Shape), sampled.multiplier)
          /\ \E fresh \in {forward(DRRInit(input, Shape, 1, 1, None, sampled.multiplier),
                                   None, source, target)} :
                /\ ~fresh.raised
                /\ fresh.self.renderer.volume = sampled.volume
                /\ fresh.img = img

\* C6's case: a forward has rendered after a caller changed the multiplier,
\* on a volume whose density depends on it
C6_Witness ==
    /\ sampled.read
    /\ sampled.multiplier = R(2)
    /\ img[1][1].sum # Zero
    /\ drr.bone # {}
    /\ sampled.volume # StatedDensity(Flip(input, Shape), One)
    /\ sampled.volume # StatedDensity(Flip(input, Shape), Rat(1, 2))

\* The density before normalisation is constant
ZeroRange(raw, m) == Cardinality(Values(StatedPreNorm(raw, m))) = 1

\* C7 as claimed: no density is installed or returned when the density
\* before normalisation has max(D) = min(D).
C7_ZeroRangeIsAnError ==
    /\ drr.renderer.has_volume =>
          ~ZeroRange(drr.volume, drr.bone_attenuation_multiplier)
    /\ (density.called /\ ~density.raised) => ~ZeroRange(input, One)
\* ------------------------------------------------------------------------
\* SpecSiddon: Siddon.forward applied to a volume and a batch of rays
\* ------------------------------------------------------------------------
UniformShape == <<4, 4, 4>>
Uniform(rho) == [v \in Voxels(UniformShape) |-> R(rho)]
Densities == {1, 2}

\* A volume whose voxels all differ: 1, 2, 3, ... in index order
Graded == [v \in Voxels(Shape) |-> R(1 + v[1] + NX * v[2] + NX * NY * v[3])]

\* Single rays through (and beside) the uniform volume: along each axis at
\* several offsets, and two oblique ones
Offsets == {1, 3, 4, 6, 11}
UniformRays ==
    {[source |-> <<P3(-20, y, z)>>, target |-> << <<P3(20, y, z)>> >>] :
        y \in Offsets, z \in Offsets}
    \cup {[source |-> <<P3(x, -20, z)>>, target |-> << <<P3(x, 20, z)>> >>] :
        x \in Offsets, z \in Offsets}
    \cup {[source |-> <<P3(x, y, 20)>>, target |-> << <<P3(x, y, -20)>> >>] :
        x \in Offsets, y \in Offsets}
    \cup {[source |-> <<P3(-4, -4, 3)>>, target |-> << <<P3(12, 12, 3)>> >>],
          [source |-> <<P3(-6, 1, 1)>>, target |-> << <<P3(14, 5, 3)>> >>]}

\* Batches of two rays from one source to a detector behind the graded volume
DetectorPoints == {P3(8, y, z) : y \in {-10, 1, 2, 12}, z \in {1, 2}}
GradedRays ==
    {[source |-> <<S>>, target |-> << <<T1, T2>> >>] :
        S \in {P3(-4, 1, 1)}, T1 \in DetectorPoints, T2 \in DetectorPoints}

\* Batches of two images of one pixel each, from two sources
ImageBatches ==
    {[source |-> <<P3(-4, 1, 1), P3(1, -4, 1)>>, target |-> << <<T1>>, <<T2>> >>] :
        T1 \in DetectorPoints, T2 \in {P3(1, 8, 1), P3(3, 8, 2), P3(12, 8, 1)}}

InitSiddon ==
    /\ \/ /\ scene \in {[volume |-> Uniform(rho), shape |-> UniformShape] : rho \in Densities}
          /\ \E rays \in UniformRays : source = rays.source /\ target = rays.target
       \/ /\ scene = [volume |-> Graded, shape |-> Shape]
          /\ \E rays \in GradedRays \cup ImageBatches :
                source = rays.source /\ target = rays.target
    /\ outcome = "constructed"
    /\ alphas = <<>>
    /\ xyzs = <<>>
    /\ img = <<>>
    /\ input = <<>>
    /\ drr = <<>>
    /\ supplied = Zero
    /\ sampled = NoRead
    /\ density = NotCalled
    /\ threads = <<>>

\* renderer(volume, source, target) with the default arguments
Render ==
    /\ outcome = "constructed"
    /\ \E a \in {get_alphas(source, target, Dims(scene.shape), eps, TRUE)} :
          /\ alphas' = a
          /\ img' = SiddonImage(scene.volume, Dims(scene.shape), source, target, eps, a)
    /\ outcome' = "returned"
    /\ UNCHANGED <<input, drr, supplied, sampled, density, scene, source, target, xyzs,
                   threads>>

NextSiddon == Render

SpecSiddon == InitSiddon /\ [][NextSiddon]_vars

\* ---- the geometry the claims speak of, with the ray's own direction T - S
\* The volume's bounding box is [-1/2, dim - 1/2] on every axis.
BoxLo == Rat(-1, 2)
BoxHi(dims, a) == RSub(R(dims[a]), Rat(1, 2))
Dir(S, T) == [a \in Axes |-> RSub(T[a], S[a])]

\* An axis along which the ray does not move and lies beside the box
AxisMisses(S, T, dims, a) ==
    Dir(S, T)[a] = Zero /\ (RLt(S[a], BoxLo) \/ RLt(BoxHi(dims, a), S[a]))

Moving(S, T) == {a \in Axes : Dir(S, T)[a] # Zero}

\* The parameters at which the segment enters and leaves the box
Tin(S, T, dims) ==
    MaxOf({Zero} \cup {RMin2(RDiv(RSub(BoxLo, S[a]), Dir(S, T)[a]),
                             RDiv(RSub(BoxHi(dims, a), S[a]), Dir(S, T)[a])) :
                       a \in Moving(S, T)})
Tout(S, T, dims) ==
    MinOf({One} \cup {RMax2(RDiv(RSub(BoxLo, S[a]), Dir(S, T)[a]),
                            RDiv(RSub(BoxHi(dims, a), S[a]), Dir(S, T)[a])) :
                      a \in Moving(S, T)})

\* No point of the segment from S to T lies in the bounding box
SegmentOutside(S, T, dims) ==
    \/ \E a \in Axes : AxisMisses(S, T, dims, a)
    \/ RLt(Tout(S, T, dims), Tin(S, T, dims))

\* The squared length of the segment's part inside the bounding box
PathLength2(S, T, dims) ==
    LET dt == RSub(Tout(S, T, dims), Tin(S, T, dims))
        d == Dir(S, T)
    IN  RMul(RMul(dt, dt), SumSeq([a \in Axes |-> RMul(d[a], d[a])]))

Rays == {<<b, n>> \in (1 .. Len(target)) \X (1 .. 16) : n <= Len(target[b])}

\* The square of a pixel's value
Value2(px) == RMul(RMul(px.sum, px.sum), px.len2)

\* C1 as claimed: a ray whose segment lies outside the bounding box renders
\* to 0, whatever other rays its batch holds.
C1_OutsideRayRendersZero ==
    (outcome = "returned") =>
        \A r \in Rays :
            SegmentOutside(source[r[1]], target[r[1]][r[2]], scene.shape)
                => Value2(img[r[1]][r[2]]) = Zero

\* C2 as claimed: through a volume of uniform density rho a ray renders to
\* rho times the length of its path inside the volume (here: to within a
\* tenth of that value, compared as squares).
C2_UniformDensityGivesPathLength ==
    (outcome = "returned" /\ scene.shape = UniformShape) =>
        \A r \in Rays :
            LET S == source[r[1]]
                T == target[r[1]][r[2]]
                rho == scene.volume[<<0, 0, 0>>]
                want2 == RMul(RMul(rho, rho), PathLength2(S, T, scene.shape))
            IN  ~SegmentOutside(S, T, scene.shape) =>
                    /\ RLe(RMul(Rat(81, 100), want2), Value2(img[r[1]][r[2]]))
                    /\ RLe(Value2(img[r[1]][r[2]]), RMul(Rat(121, 100), want2))

Ascending(s) == \A k \in 1 .. Len(s) - 1 : RLe(s[k], s[k + 1])
Contains(s, x) == \E k \in 1 .. Len(s) : s[k] = x

\* C9 as claimed: for a ray that crosses the volume (alphamin <= alphamax)
\* the filtered alphas are ascending and hold the ray's alphamin and alphamax.
C9_AlphasHoldEntryAndExit ==
    (outcome = "returned") =>
        \A r \in Rays :
            LET mm == get_alpha_minmax(source[r[1]], target[r[1]][r[2]], scene.shape, eps)
            IN  RLe(mm.alphamin, mm.alphamax) =>
                    /\ Ascending(alphas[r[1]][r[2]])
                    /\ Contains(alphas[r[1]][r[2]], mm.alphamin)
                    /\ Contains(alphas[r[1]][r[2]], mm.alphamax)

\* The rank positions at which some ray of the batch has a crossing within
\* its own [alphamin, alphamax]; sorted[b][n] are the sorted crossings
InBoundsRanks(sorted) ==
    {k \in 1 .. Len(sorted[1][1]) :
        \E r \in Rays :
            LET mm == get_alpha_minmax(source[r[1]], target[r[1]][r[2]], scene.shape, eps)
            IN  /\ RLe(mm.alphamin, sorted[r[1]][r[2]][k])
                /\ RLe(sorted[r[1]][r[2]][k], mm.alphamax)}

\* The i-th smallest member of a set of positions
Kth(K, i) == CHOOSE k \in K : Cardinality({j \in K : j <= k}) = i

\* C13: rank position k of the sorted crossings is retained if and only if
\* some ray of the batch (over all images and pixels) has its k-th smallest
\* crossing within its own [alphamin, alphamax]; every ray retains, in
\* order, its crossings at exactly those positions, so all rays retain the
\* same number.
C13_FilterRetainsRanksOfAnyRay ==
    (outcome = "returned") =>
        \E sorted \in {get_alphas(source, target, scene.shape, eps, FALSE)} :
            \E K \in {InBoundsRanks(sorted)} :
                \A r \in Rays :
                    /\ Len(alphas[r[1]][r[2]]) = Cardinality(K)
                    /\ \A i \in 1 .. Cardinality(K) :
                          alphas[r[1]][r[2]][i] = sorted[r[1]][r[2]][Kth(K, i)]

\* C13's case: a batch of two images in which a ray retains a crossing that
\* lies outside its own bounds, because another image's ray has its
\* crossing of that rank within bounds
C13_Witness ==
    /\ outcome = "returned"
    /\ Len(target) = 2
    /\ \E i \in 1 .. Len(alphas[1][1]) :
          LET m1 == get_alpha_minmax(source[1], target[1][1], scene.shape, eps)
              m2 == get_alpha_minmax(source[2], target[2][1], scene.shape, eps)
          IN  /\ ~(RLe(m1.alphamin, alphas[1][1][i]) /\ RLe(alphas[1][1][i], m1.alphamax))
              /\ RLe(m2.alphamin, alphas[2][1][i]) /\ RLe(alphas[2][1][i], m2.alphamax)
\* ------------------------------------------------------------------------
\* SpecSampler: _get_xyzs and _get_voxel applied to points of a ray
\* ------------------------------------------------------------------------
\* The points: parameter 0 (the source itself) and 1/2 of rays whose sources
\* lie on the half-voxel grid in and around the volume
SamplePoints ==
    {P3(x, y, z) : x \in -2 .. 2 * NX + 4, y \in -2 .. 2 * NY + 4, z \in -2 .. 2 * NZ + 4}

InitSampler ==
    /\ scene = [volume |-> Graded, shape |-> Shape]
    /\ \E S \in SamplePoints : source = <<S>>
    /\ target = << <<P3(8, 1, 1)>> >>
    /\ alphas \in {<< << <<Zero>> >> >>, << << <<Rat(1, 2)>> >> >>}
    /\ outcome = "constructed"
    /\ xyzs = <<>>
    /\ img = <<>>
    /\ input = <<>>
    /\ drr = <<>>
    /\ supplied = Zero
    /\ sampled = NoRead
    /\ density = NotCalled
    /\ threads = <<>>

\* xyzs = _get_xyzs(alphas, source, target, dims, eps);
\* img = _get_voxel(volume, xyzs, "nearest", align_corners=True)
Sample ==
    /\ outcome = "constructed"
    /\ \E p \in {[b \in 1 .. Len(target) |->
                   [n \in 1 .. Len(target[b]) |->
                      [k \in 1 .. Len(alphas[b][n]) |->
                         get_xyzs(alphas[b][n][k], source[b], target[b][n],
                                  Dims(scene.shape), eps)]]]} :
          /\ xyzs' = p
          /\ img' = [b \in 1 .. Len(target) |->
                       [n \in 1 .. Len(target[b]) |->
                          [k \in 1 .. Len(alphas[b][n]) |->
                             get_voxel(scene.volume, Dims(scene.shape), p[b][n][k])]]]
    /\ outcome' = "returned"
    /\ UNCHANGED <<input, drr, supplied, sampled, density, scene, source, target, alphas,
                   threads>>

NextSampler == Sample

SpecSampler == InitSampler /\ [][NextSampler]_vars

\* The point of ray (S, T) at parameter alpha, in voxel-index coordinates
WorldPoint(alpha, S, T) ==
    [a \in Axes |-> RAdd(S[a], RMul(alpha, RAdd(RSub(T[a], S[a]), eps)))]

\* w lies inside voxel v: less than half a voxel from its centre on every axis
InsideVoxel(w, v) ==
    \A a \in Axes : RLt(RSub(R(v[a]), Rat(1, 2)), w[a]) /\ RLt(w[a], RAdd(R(v[a]), Rat(1, 2)))

\* C10 as claimed: on every axis the centre of the first voxel maps to -1 and
\* the centre of the last voxel to +1, and a point inside voxel (i, j, k) is
\* sampled (nearest mode) to the value of voxel (i, j, k).
C10_SamplerReadsTheVoxelOfThePoint ==
    (outcome = "returned") =>
        \A r \in Rays : \A k \in 1 .. Len(alphas[r[1]][r[2]]) :
            LET w == WorldPoint(alphas[r[1]][r[2]][k], source[r[1]], target[r[1]][r[2]])
            IN  /\ \A a \in Axes :
                      /\ w[a] = Zero => xyzs[r[1]][r[2]][k][a] = R(-1)
                      /\ w[a] = R(scene.shape[a] - 1) => xyzs[r[1]][r[2]][k][a] = One
                /\ \A v \in Voxels(scene.shape) :
                      InsideVoxel(w, v) => img[r[1]][r[2]][k] = scene.volume[v]

\* The position of a normalised coordinate on the voxel-index scale of
\* axis a (align_corners=True: -1 is index 0, +1 is index dim - 1)
IndexCoordinate(x, dims, a) == RMul(RDiv(RAdd(x, One), R(2)), R(dims[a] - 1))

\* The coordinate lies more than half a voxel beyond the first or last index
BeyondRange(x, dims, a) ==
    \/ RLt(IndexCoordinate(x, dims, a), Rat(-1, 2))
    \/ RLt(RAdd(R(dims[a] - 1), Rat(1, 2)), IndexCoordinate(x, dims, a))

\* The coordinate lies less than half a voxel beyond the first or last index,
\* or between them
WithinRange(x, dims, a) ==
    /\ RLt(Rat(-1, 2), IndexCoordinate(x, dims, a))
    /\ RLt(IndexCoordinate(x, dims, a), RAdd(R(dims[a] - 1), Rat(1, 2)))

\* The in-range index nearest to the coordinate
ClampedIndex(x, dims, a) ==
    LET i == NearbyInt(IndexCoordinate(x, dims, a))
    IN  IF i < 0 THEN 0 ELSE IF i > dims[a] - 1 THEN dims[a] - 1 ELSE i

ClampedVoxel(xyz, dims) == [a \in Axes |-> ClampedIndex(xyz[a], dims, a)]

Samples == {<<r, k>> \in Rays \X (1 .. 4) : k <= Len(alphas[r[1]][r[2]])}

\* C11 as claimed: a coordinate outside [-1, 1] on some axis is clamped: the
\* sampler returns the value of the nearest boundary voxel.
C11_OutOfRangeIsClamped ==
    (outcome = "returned") =>
        \A s \in Samples :
            LET xyz == xyzs[s[1][1]][s[1][2]][s[2]]
            IN  (\E a \in Axes : RLt(xyz[a], R(-1)) \/ RLt(One, xyz[a])) =>
                    img[s[1][1]][s[1][2]][s[2]] =
                        scene.volume[ClampedVoxel(xyz, scene.shape)]

\* C11, amended: the sampler pads with zeros and never wraps.  A coordinate
\* more than half a voxel beyond the first or last voxel centre on some axis
\* samples 0; a coordinate less than half a voxel beyond them on every axis
\* (or between them) samples the voxel of the nearest index.
C11_OutOfRangeIsZero ==
    (outcome = "returned") =>
        \A s \in Samples :
            LET xyz == xyzs[s[1][1]][s[1][2]][s[2]]
                got == img[s[1][1]][s[1][2]][s[2]]
            IN  /\ (\E a \in Axes : BeyondRange(xyz[a], scene.shape, a)) => got = Zero
                /\ (\A a \in Axes : WithinRange(xyz[a], scene.shape, a)) =>
                       got = scene.volume[ClampedVoxel(xyz, scene.shape)]

\* C11's case: a point sampled beyond the last voxel of the first axis, in
\* range on the other axes, where the nearest boundary voxel is not 0
C11_Witness ==
    /\ outcome = "returned"
    /\ \E s \in Samples :
          LET xyz == xyzs[s[1][1]][s[1][2]][s[2]]
          IN  /\ RLt(RAdd(R(scene.shape[1] - 1), Rat(1, 2)),
                     IndexCoordinate(xyz[1], scene.shape, 1))
              /\ \A a \in {2, 3} : WithinRange(xyz[a], scene.shape, a)
              /\ scene.volume[ClampedVoxel(xyz, scene.shape)] # Zero
              /\ img[s[1][1]][s[1][2]][s[2]] = Zero

\* ------------------------------------------------------------------------
\* SpecTile: DRR.forward of a session constructed with a patch_size
\* ------------------------------------------------------------------------
\* Raw volumes whose density is not constant: one slab each of 0, 350 and
\* 700, and soft tissue that differs from voxel to voxel
TileVolumes ==
    {Layered(<<0, 350, 700>>),
     [v \in Voxels(Shape) |-> RMul(R(25), Graded[v])]}

\* Image sizes (height, width) and patch sizes
ImageSizes == {<<1, 2>>, <<2, 2>>, <<3, 3>>}
PatchSizes == {1, 2}

\* The detector (detector.py is not part of the model): pixel p of a
\* height x width image, row by row, is the target of the ray from the source
\* to a point of a plane behind the volume
DetectorTargets(height, width, oy, oz, pitch) ==
    << [p \in 1 .. height * width |->
          P3(8, oy + pitch * ((p - 1) % width), oz + pitch * ((p - 1) \div width))] >>
Poses == {[oy |-> oy, oz |-> oz, pitch |-> pitch] :
             oy \in {-10, 1, 2}, oz \in {1, 2}, pitch \in {1, 10}}

InitTile ==
    /\ input \in TileVolumes
    /\ supplied = One
    /\ \E hw \in ImageSizes, ps \in PatchSizes, pose \in Poses :
          /\ drr = DRRInit(input, Shape, hw[1], hw[2], Some(ps), supplied)
          /\ source = <<P3(-4, 1, 1)>>
          /\ target = DetectorTargets(hw[1], hw[2], pose.oy, pose.oz, pose.pitch)
    /\ outcome = "constructed"
    /\ sampled = NoRead
    /\ density = NotCalled
    /\ scene = NoScene
    /\ alphas = <<>>
    /\ xyzs = <<>>
    /\ img = <<>>
    /\ threads = <<>>

\* drr(pose) on the session's rays
ForwardTile ==
    /\ outcome = "constructed"
    /\ \E r \in {forward(drr, None, source, target)} :
          /\ drr' = r.self
          /\ outcome' = IF r.raised THEN "raised" ELSE "returned"
          /\ sampled' = IF r.read
                        THEN [read |-> TRUE, volume |-> r.self.renderer.volume,
                              multiplier |-> supplied]
                        ELSE NoRead
          /\ img' = r.img
    /\ UNCHANGED <<input, supplied, density, scene, source, target, alphas, xyzs, threads>>

NextTile == ForwardTile

SpecTile == InitTile /\ [][NextTile]_vars

\* C3 as claimed: forward in patch mode returns one value for every pixel,
\* in pixel order, equal to the value of the same ray when the whole batch is
\* rendered by a single renderer call.
C3_TilingIsLossless ==
    (outcome # "constructed") =>
        /\ outcome = "returned"
        /\ Len(img) = 1
        /\ Len(img[1]) = drr.height * drr.width
        /\ img = renderer_call(drr, source, target)
\* ------------------------------------------------------------------------
\* SpecConc: two threads calling one DRR session
\* ------------------------------------------------------------------------
\* The session has no lock; a thread can be preempted between any two
\* statements.  A call in progress is a record: the op ("forward" or "set"),
\* its multiplier argument, the set_bone_attenuation_multiplier calls it has
\* still to make ("self": with self.bone_attenuation_multiplier, line 114;
\* "arg": with the argument, line 116 or the call itself), its position, the
\* local density and multiplier of the set call it is in, the partial images
\* it has rendered, and what it saw on the session at each renderer call.
ConcVolumes ==
    {Layered(<<0, 350, 700>>),
     Layered(<<-1000, 0, 700>>)}

Call(op, arg) ==
    [op |-> op, arg |-> arg,
     calls |-> IF op = "set" THEN <<"arg">>
               ELSE IF arg.given THEN <<"self", "arg">> ELSE <<"self">>,
     pc |-> "derive", m |-> Zero, local |-> <<>>, parts |-> <<>>, seen |-> <<>>]

ConcCalls ==
    {Call("forward", a) : a \in {None, Some(R(2))}}
    \cup {Call("set", Some(m)) : m \in {Rat(1, 2), R(2)}}

InitConc ==
    /\ input \in ConcVolumes
    /\ supplied = One
    /\ drr = DRRInit(input, Shape, 1, 2, Some(1), supplied)
    /\ source = <<P3(-4, 1, 1)>>
    /\ target = DetectorTargets(1, 2, 1, 1, 1)
    /\ \E c1 \in {Call("forward", None), Call("forward", Some(R(2)))}, c2 \in ConcCalls :
          threads = <<c1, c2>>
    /\ outcome = "constructed"
    /\ sampled = NoRead
    /\ density = NotCalled
    /\ scene = NoScene
    /\ alphas = <<>>
    /\ xyzs = <<>>
    /\ img = <<>>

\* set_bone_attenuation_multiplier, lines 139-144: the density, in a local
Derive(t) ==
    /\ threads[t].pc = "derive"
    /\ LET m == IF Head(threads[t].calls) = "self"
                THEN drr.bone_attenuation_multiplier
                ELSE threads[t].arg.value
       IN  threads' =
             [threads EXCEPT ![t] =
                IF drr.soft_tissue = {}
                THEN [@ EXCEPT !.pc = "raised"]
                ELSE [@ EXCEPT !.pc = "store", !.m = m,
                               !.local = Density(drr.volume, drr.air, drr.soft_tissue,
                                                 drr.bone, m)]]
    /\ UNCHANGED <<input, drr, outcome, supplied, sampled, density, scene, source, target,
                   alphas, xyzs, img>>

\* line 145: self.bone_attenuation_multiplier = bone_attenuation_multiplier
Store(t) ==
    /\ threads[t].pc = "store"
    /\ drr' = [drr EXCEPT !.bone_attenuation_multiplier = threads[t].m]
    /\ threads' = [threads EXCEPT ![t].pc = "install"]
    /\ UNCHANGED <<input, outcome, supplied, sampled, density, scene, source, target,
                   alphas, xyzs, img>>

\* line 147: self.renderer.volume = density; then the call returns
Install(t) ==
    /\ threads[t].pc = "install"
    /\ drr' = [drr EXCEPT !.renderer = [has_volume |-> TRUE, volume |-> threads[t].local]]
    /\ threads' =
         [threads EXCEPT ![t] =
            [@ EXCEPT !.calls = Tail(@),
                      !.pc = IF Tail(threads[t].calls) # <<>> THEN "derive"
                             ELSE IF threads[t].op = "forward" THEN "render"
                             ELSE "done"]]
    /\ UNCHANGED <<input, outcome, supplied, sampled, density, scene, source, target,
                   alphas, xyzs, img>>

\* forward, lines 127-130: one turn of the loop over the patches
RenderPatch(t) ==
    /\ threads[t].pc = "render"
    /\ Len(threads[t].parts) < drr.n_patches.value
    /\ LET idx == Len(threads[t].parts)
           n_points == Len(target[1]) \div drr.n_patches.value
       IN  threads' =
             [threads EXCEPT ![t] =
                [@ EXCEPT !.parts = Append(@, renderer_call(drr, source,
                                       Slice(target, idx * n_points, (idx + 1) * n_points))),
                          !.seen = Append(@, [volume |-> drr.renderer.volume,
                                              multiplier |-> drr.bone_attenuation_multiplier])]]
    /\ UNCHANGED <<input, drr, outcome, supplied, sampled, density, scene, source, target,
                   alphas, xyzs, img>>

\* forward, lines 131 and 134: concatenate, reshape, return
Return(t) ==
    /\ threads[t].pc = "render"
    /\ Len(threads[t].parts) = drr.n_patches.value
    /\ \E r \in {reshape_transform(drr, Cat(threads[t].parts, 1))} :
          /\ img' = r.img
          /\ outcome' = IF r.raised THEN "raised" ELSE "returned"
          /\ threads' = [threads EXCEPT ![t].pc = IF r.raised THEN "raised" ELSE "done"]
    /\ UNCHANGED <<input, drr, supplied, sampled, density, scene, source, target,
                   alphas, xyzs>>

NextConc ==
    \E t \in 1 .. 2 :
        \/ Derive(t)
        \/ Store(t)
        \/ Install(t)
        \/ RenderPatch(t)
        \/ Return(t)

SpecConc == InitConc /\ [][NextConc]_vars

\* C8 as claimed: every renderer call of one forward reads the same density
\* field, and the multiplier stored on the session when a field is read is
\* the multiplier that field was derived with.
C8_NoTornDensity ==
    \A t \in DOMAIN threads :
        \A i \in 1 .. Len(threads[t].seen) :
            /\ threads[t].seen[i].volume = threads[t].seen[1].volume
            /\ threads[t].seen[i].volume =
                  Density(drr.volume, drr.air, drr.soft_tissue, drr.bone,
                          threads[t].seen[i].multiplier)
\* ------------------------------------------------------------------------
\* SpecConfig: constructing a DRR or a renderer from a configuration, then
\* rendering with it
\* ------------------------------------------------------------------------
\* Siddon.__init__: the arguments are stored, none is checked
SiddonNew(mode) ==
    [mode |-> mode, stop_gradients_through_grid_sample |-> FALSE,
     filter_intersections_outside_volume |-> TRUE, eps |-> eps]

\* Siddon.forward for one ray with the renderer's mode, given its alphas
SiddonPixelMode(volume, dims, S, T, e, al, mode) ==
    LET alphamid == [k \in 1 .. Len(al) - 1 |-> RDiv(RAdd(al[k], al[k + 1]), R(2))]
        vox == [k \in 1 .. Len(al) - 1 |->
                  RMul(get_voxel_mode(volume, dims, get_xyzs(alphamid[k], S, T, dims, e),
                                      mode),
                       RSub(al[k + 1], al[k]))]
    IN  [sum |-> SumSeq(vox), len2 |-> raylength2(S, T, e)]

SiddonImageMode(volume, dims, src, tgt, e, al, mode) ==
    [b \in 1 .. Len(tgt) |->
       [n \in 1 .. Len(tgt[b]) |->
          SiddonPixelMode(volume, dims, src[b], tgt[b][n], e, al[b][n], mode)]]

\* Siddon.forward(volume, source, target) of a renderer with any mode:
\* grid_sample raises on a mode it does not know, at the first sample
SiddonForwardMode(renderer, volume, shape, src, tgt) ==
    IF renderer.mode \notin SampleModes
    THEN [raised |-> TRUE, img |-> <<>>]
    ELSE [raised |-> FALSE,
          img |-> SiddonImageMode(volume, Dims(shape), src, tgt, renderer.eps,
                     get_alphas(src, tgt, Dims(shape), renderer.eps,
                                renderer.filter_intersections_outside_volume),
                     renderer.mode)]

\* DRR.__init__ with a renderer name, the detector's subsample (None without
\* p_subsample; else the pixels it drew, in the order it drew them) and
\* reshape.  Line 77 raises on a name other than "siddon", after the other
\* fields are set and before self.renderer is.
DRRNew(volume, shape, height, width, renderer, subsamples, reshape, m) ==
    LET self == [DRRInit(volume, shape, height, width, None, m) EXCEPT !.reshape = reshape]
    IN  [raised |-> renderer # "siddon",
         self |-> self @@ [subsamples |-> subsamples,
                           has_renderer |-> renderer = "siddon"]]

\* reshape_subsampled_drr: an image of zeros, with the rendered values at
\* the subsampled pixels
reshape_subsampled_drr(image, self) ==
    [b \in 1 .. Len(image) |->
       [p \in 1 .. self.height * self.width |->
          IF \E i \in 1 .. Len(self.subsamples.value) : self.subsamples.value[i] = p
          THEN image[b][CHOOSE i \in 1 .. Len(self.subsamples.value) :
                         /\ self.subsamples.value[i] = p
                         /\ \A j \in i + 1 .. Len(self.subsamples.value) :
                               self.subsamples.value[j] # p]
          ELSE [sum |-> Zero, len2 |-> Zero]]]

\* reshape_transform, with and without subsampling
reshape_transform_detector(self, image) ==
    IF ~self.reshape THEN [raised |-> FALSE, img |-> image]
    ELSE IF ~self.subsamples.given THEN reshape_transform(self, image)
    ELSE [raised |-> FALSE, img |-> reshape_subsampled_drr(image, self)]

\* self.detector(pose): the targets of the subsampled pixels only
detector_call(self, tgt) ==
    IF ~self.subsamples.given THEN tgt
    ELSE [b \in 1 .. Len(tgt) |->
            [i \in 1 .. Len(self.subsamples.value) |-> tgt[b][self.subsamples.value[i]]]]

\* forward of a session without patch_size and without a multiplier
forward_detector(self, src, tgt) ==
    LET d == forward_density(self, None)
    IN  IF d.raised THEN [self |-> d.self, raised |-> TRUE, img |-> <<>>]
        ELSE LET r == reshape_transform_detector(d.self,
                          renderer_call(d.self, src, detector_call(d.self, tgt)))
             IN  [self |-> d.self, raised |-> r.raised, img |-> r.img]

RendererNames == {"siddon", "trilinear", "exact"}
ModeNames == {"nearest", "bilinear", "bicubic", "linear"}

\* The pixels a detector subsamples: distinct pixel indices in any order,
\* fewer than the image has
Subsamples(n_points) ==
    {q \in UNION {[1 .. n -> 1 .. n_points] : n \in 1 .. n_points - 1} :
        \A i, j \in DOMAIN q : i # j => q[i] # q[j]}

Configs ==
    {[op |-> "DRR", renderer |-> name, mode |-> "nearest", height |-> hw[1],
      width |-> hw[2], subsamples |-> sub, reshape |-> reshape] :
        name \in RendererNames,
        hw \in {<<1, 2>>},
        sub \in {None} \cup {Some(q) : q \in Subsamples(2)},
        reshape \in BOOLEAN}
    \cup
    {[op |-> "DRR", renderer |-> name, mode |-> "nearest", height |-> hw[1],
      width |-> hw[2], subsamples |-> sub, reshape |-> reshape] :
        name \in RendererNames,
        hw \in {<<2, 2>>},
        sub \in {None} \cup {Some(q) : q \in Subsamples(4)},
        reshape \in BOOLEAN}
    \cup
    {[op |-> "Siddon", renderer |-> "siddon", mode |-> mode, height |-> 1,
      width |-> 2, subsamples |-> None, reshape |-> FALSE] : mode \in ModeNames}

InitConfig ==
    /\ scene \in Configs
    /\ input = Layered(<<0, 350, 700>>)
    /\ supplied = One
    /\ source = <<P3(-4, 1, 1)>>
    /\ target = DetectorTargets(scene.height, scene.width, 1, 1, 1)
    /\ drr = <<>>
    /\ outcome = "configured"
    /\ sampled = NoRead
    /\ density = NotCalled
    /\ alphas = <<>>
    /\ xyzs = <<>>
    /\ img = <<>>
    /\ threads = <<>>

\* DRR(volume, ..., renderer=name, p_subsample=..., reshape=...)
ConstructDRR ==
    /\ outcome = "configured"
    /\ scene.op = "DRR"
    /\ \E r \in {DRRNew(input, Shape, scene.height, scene.width, scene.renderer,
                        scene.subsamples, scene.reshape, supplied)} :
          /\ drr' = r.self
          /\ outcome' = IF r.raised THEN "raised" ELSE "constructed"
    /\ UNCHANGED <<input, supplied, sampled, density, scene, source, target, alphas, xyzs,
                   img, threads>>

\* Siddon(mode=...)
ConstructSiddon ==
    /\ outcome = "configured"
    /\ scene.op = "Siddon"
    /\ drr' = [has_renderer |-> TRUE, renderer |-> SiddonNew(scene.mode)]
    /\ outcome' = "constructed"
    /\ UNCHANGED <<input, supplied, sampled, density, scene, source, target, alphas, xyzs,
                   img, threads>>

\* drr(pose) on the constructed session
RenderDRR ==
    /\ outcome = "constructed"
    /\ scene.op = "DRR"
    /\ \E r \in {forward_detector(drr, source, target)} :
          /\ drr' = r.self
          /\ img' = r.img
          /\ outcome' = IF r.raised THEN "render raised" ELSE "returned"
    /\ UNCHANGED <<input, supplied, sampled, density, scene, source, target, alphas, xyzs,
                   threads>>

\* renderer(volume, source, target) on the constructed renderer
RenderSiddon ==
    /\ outcome = "constructed"
    /\ scene.op = "Siddon"
    /\ \E r \in {SiddonForwardMode(drr.renderer, Graded, Shape, source, target)} :
          /\ img' = r.img
          /\ outcome' = IF r.raised THEN "render raised" ELSE "returned"
    /\ UNCHANGED <<input, drr, supplied, sampled, density, scene, source, target, alphas,
                   xyzs, threads>>

NextConfig ==
    \/ ConstructDRR
    \/ ConstructSiddon
    \/ RenderDRR
    \/ RenderSiddon

SpecConfig == InitConfig /\ [][NextConfig]_vars

\* A configuration the specification calls an error
ConfigurationError(c) ==
    \/ c.op = "DRR" /\ c.renderer # "siddon"
    \/ c.op = "Siddon" /\ c.mode \notin {"nearest", "bilinear"}
    \/ c.op = "DRR" /\ c.subsamples.given /\ c.reshape

\* C12 as claimed: an unsupported renderer name, an unknown interpolation
\* mode, or subsampling together with reshape ends the constructing call in
\* an error: no renderer is installed and nothing is rendered.
C12_ConfigurationErrorsRaiseAtConstruction ==
    (ConfigurationError(scene) /\ outcome # "configured") =>
        /\ outcome = "raised"
        /\ ~drr.has_renderer
        /\ img = <<>>
\* ------------------------------------------------------------------------
\* SpecTrilinear: Trilinear.forward applied to a volume and a batch of rays
\* ------------------------------------------------------------------------
\* Trilinear.__init__
TrilinearNew(near, far, mode, filter) ==
    [near |-> near, far |-> far, mode |-> mode,
     filter_intersections_outside_volume |-> filter, eps |-> eps]

\* torch.linspace(near, far, n_points), n_points >= 1
linspace(near, far, n_points) ==
    [i \in 1 .. n_points |->
        IF n_points = 1 THEN near
        ELSE RAdd(near, RMul(R(i - 1), RDiv(RSub(far, near), R(n_points - 1))))]

\* Trilinear.forward, lines 192-197: the sample parameters, shared by all
\* rays (shape (1, 1, n) broadcast against every ray's bounds)
trilinear_alphas(renderer, src, tgt, dims, n_points) ==
    LET al == linspace(renderer.near, renderer.far, n_points)
        keep == UNION {good_idxs(al, src[b], tgt[b][n], dims, renderer.eps) :
                       <<b, n>> \in {<<b, n>> \in (1 .. Len(tgt)) \X (1 .. 64) :
                                       n <= Len(tgt[b])}}
    IN  IF renderer.filter_intersections_outside_volume THEN Select(al, keep) ELSE al

\* lines 201-204: the values sampled along each ray
trilinear_samples(renderer, volume, dims, src, tgt, al) ==
    [b \in 1 .. Len(tgt) |->
       [n \in 1 .. Len(tgt[b]) |->
          [k \in 1 .. Len(al) |->
             get_voxel_mode(volume, dims,
                            get_xyzs(al[k], src[b], tgt[b][n], dims, renderer.eps),
                            renderer.mode)]]]

\* lines 207-222 without a mask: img.sum(dim=-1) * raylength / n_points; a
\* pixel is sum * sqrt(len2)
trilinear_image(renderer, src, tgt, samples, n_points) ==
    [b \in 1 .. Len(tgt) |->
       [n \in 1 .. Len(tgt[b]) |->
          [sum |-> RDiv(SumSeq(samples[b][n]), R(n_points)),
           len2 |-> raylength2(src[b], tgt[b][n], renderer.eps)]]]

\* The largest n_points
MaxPoints == 4

\* near and far, a sub-range of [0, 1]
Ranges ==
    {<<near, far>> \in {Zero, Rat(1, 4), Rat(1, 2), One} \X {Rat(1, 2), Rat(3, 4), One} :
        RLt(near, far)}

\* The target that gives the ray from S the guarded direction d exactly:
\* target - source + eps = d
TargetAlong(S, d) == [a \in Axes |-> RSub(RAdd(S[a], d[a]), eps)]

\* One ray, or two rays of one image, through and beside the volume
TrilinearRays ==
    {[source |-> <<P3(-4, 1, 1)>>, target |-> << <<TargetAlong(P3(-4, 1, 1), d)>> >>] :
        d \in {P3(12, 0, 0), P3(12, 1, 1)}}
    \cup {[source |-> <<P3(-4, 1, 1)>>,
           target |-> << <<TargetAlong(P3(-4, 1, 1), P3(12, 0, 0)),
                           TargetAlong(P3(-4, 1, 1), P3(12, 11, 0))>> >>]}

InitTrilinear ==
    /\ \E rg \in Ranges, n_points \in 1 .. MaxPoints, filter \in BOOLEAN,
          mode \in SampleModes :
          scene = [volume |-> Graded, shape |-> Shape, n_points |-> n_points,
                   renderer |-> TrilinearNew(rg[1], rg[2], mode, filter)]
    /\ \E rays \in TrilinearRays : source = rays.source /\ target = rays.target
    /\ outcome = "constructed"
    /\ alphas = <<>>
    /\ xyzs = <<>>
    /\ img = <<>>
    /\ input = <<>>
    /\ drr = <<>>
    /\ supplied = Zero
    /\ sampled = <<>>
    /\ density = NotCalled
    /\ threads = <<>>

\* renderer(volume, source, target, n_points) with the default arguments:
\* alphas are the sample parameters, sampled the values read at them
RenderTrilinear ==
    /\ outcome = "constructed"
    /\ \E al \in {trilinear_alphas(scene.renderer, source, target, Dims(scene.shape),
                                   scene.n_points)} :
          /\ alphas' = al
          /\ \E v \in {trilinear_samples(scene.renderer, scene.volume, Dims(scene.shape),
                                         source, target, al)} :
                /\ sampled' = v
                /\ img' = trilinear_image(scene.renderer, source, target, v, scene.n_points)
    /\ outcome' = "returned"
    /\ UNCHANGED <<input, drr, supplied, density, scene, source, target, xyzs, threads>>

NextTrilinear == RenderTrilinear

SpecTrilinear == InitTrilinear /\ [][NextTrilinear]_vars

\* C14 as claimed: a ray's value is the sum of its sampled values times the
\* parameter spacing between consecutive samples times the ray length
\* (taken with the renderer's eps guard), for every [near, far], every
\* n_points, filtered or not.
C14_SumTimesSpacingTimesLength ==
    (outcome = "returned" /\ Len(alphas) >= 2) =>
        \A r \in Rays :
            /\ img[r[1]][r[2]].sum =
                  RMul(SumSeq(sampled[r[1]][r[2]]), RSub(alphas[2], alphas[1]))
            /\ img[r[1]][r[2]].len2 =
                  raylength2(source[r[1]], target[r[1]][r[2]], eps)
\* ------------------------------------------------------------------------
\* SpecMask: Siddon.forward with a class mask
\* ------------------------------------------------------------------------
\* scatter_ along the class dimension without the add: the last segment
\* written to a channel stays
scatter_last(channels, vox, c) ==
    LET ks == {k \in 1 .. Len(vox) : channels[k] = c}
    IN  IF ks = {} THEN Zero ELSE vox[CHOOSE k \in ks : \A j \in ks : j <= k]

\* zeros(B, C, D).scatter_add_(1, channels, img) for one ray and one class:
\* the sum of the weighted samples whose channel is c
scatter_add(channels, vox, c) ==
    SumSeq([k \in 1 .. Len(vox) |-> IF channels[k] = c THEN vox[k] ELSE Zero])

\* Siddon.forward with a mask, for one ray, given its alphas: one value per
\* class 0 .. C - 1 (as a sequence, class c at position c + 1)
SiddonPixelMask(volume, mask, dims, S, T, e, al, C) ==
    LET alphamid == [k \in 1 .. Len(al) - 1 |-> RDiv(RAdd(al[k], al[k + 1]), R(2))]
        vox == [k \in 1 .. Len(al) - 1 |->
                  RMul(get_voxel(volume, dims, get_xyzs(alphamid[k], S, T, dims, e)),
                       RSub(al[k + 1], al[k]))]
        channels == [k \in 1 .. Len(al) - 1 |->
                       Floor(get_voxel(mask, dims, get_xyzs(alphamid[k], S, T, dims, e)))]
    IN  [c \in 1 .. C |->
           [sum |-> scatter_add(channels, vox, c - 1), len2 |-> raylength2(S, T, e)]]

\* Siddon.forward(volume, source, target, mask=mask): image[b][c + 1][n]
SiddonForwardMask(volume, mask, shape, src, tgt, e, filter) ==
    LET C == 1 + Floor(MaxOf(Values(mask)))
    IN  [b \in 1 .. Len(tgt) |->
           [c \in 1 .. C |->
              [n \in 1 .. Len(tgt[b]) |->
                 SiddonPixelMask(volume, mask, Dims(shape), src[b], tgt[b][n], e,
                                 get_alphas(src, tgt, Dims(shape), e, filter)[b][n],
                                 C)[c]]]]

\* Class masks of the volume's shape: a label per slab, a checkerboard of
\* two labels, and one voxel of class 2 in a volume of class 0
Masks ==
    {[v \in Voxels(Shape) |-> R(v[1])],
     [v \in Voxels(Shape) |-> R((v[1] + v[2] + v[3]) % 2)],
     [v \in Voxels(Shape) |-> IF v = <<1, 0, 0>> THEN R(2) ELSE Zero]}

InitMask ==
    /\ \E mask \in Masks : \E filter \in BOOLEAN :
          scene = [volume |-> Graded, shape |-> Shape, mask |-> mask, filter |-> filter]
    /\ \E rays \in GradedRays \cup ImageBatches :
          source = rays.source /\ target = rays.target
    /\ outcome = "constructed"
    /\ alphas = <<>>
    /\ xyzs = <<>>
    /\ img = <<>>
    /\ input = <<>>
    /\ drr = <<>>
    /\ supplied = Zero
    /\ sampled = NoRead
    /\ density = NotCalled
    /\ threads = <<>>

\* renderer(volume, source, target, mask=mask)
RenderMask ==
    /\ outcome = "constructed"
    /\ img' = SiddonForwardMask(scene.volume, scene.mask, scene.shape, source, target,
                                eps, scene.filter)
    /\ outcome' = "returned"
    /\ UNCHANGED <<input, drr, supplied, sampled, density, scene, source, target, alphas,
                   xyzs, threads>>

NextMask == RenderMask

SpecMask == InitMask /\ [][NextMask]_vars

\* C15: with a mask whose labels lie in [0, C) the image has C channels, and
\* for every ray the sum of its C per-class values equals the value the same
\* ray gets without a mask.
C15_ClassChannelsSumToUnmasked ==
    (outcome = "returned") =>
        \E plain \in {SiddonForward(scene.volume, scene.shape, source, target, eps,
                                     scene.filter)} :
            \A r \in Rays :
                /\ Len(img[r[1]]) = 1 + Floor(MaxOf(Values(scene.mask)))
                /\ SumSeq([c \in 1 .. Len(img[r[1]]) |-> img[r[1]][c][r[2]].sum]) =
                      plain[r[1]][r[2]].sum
                /\ \A c \in 1 .. Len(img[r[1]]) :
                      img[r[1]][c][r[2]].len2 = plain[r[1]][r[2]].len2

\* C15's case: a ray whose value is split over two classes
C15_Witness ==
    /\ outcome = "returned"
    /\ \E r \in Rays : \E c1, c2 \in 1 .. Len(img[r[1]]) :
          /\ c1 # c2
          /\ img[r[1]][c1][r[2]].sum # Zero
          /\ img[r[1]][c2][r[2]].sum # Zero
====
